---- MODULE Spec2Model ----
(***************************************************************************)
(* Model of the rp2040 examples of embedded-fatfs:                         *)
(*   - the SD card bring-up of main (sd_init loop, sd.init loop,           *)
(*     set_config), identical in ekv.rs and sequential-storage.rs;         *)
(*   - the DbFlash page adapter of ekv.rs (page_count/erase/read/write)    *)
(*     on top of a byte-addressed block device;                            *)
(*   - the shared SPI bus (SPI_BUS mutex, SpiDeviceWithConfig).            *)
(***************************************************************************)
EXTENDS Integers, Sequences, FiniteSets, TLC

(***************************************************************************)
(* Bounds of the model.                                                    *)
(***************************************************************************)
\* ekv's config::PAGE_SIZE is chosen by a crate feature outside this
\* repository; the model runs the adapter with a scaled-down page.
PAGE_SIZE == 2
\* Number of adapter operations issued in one run.
MaxOps == 3
\* Number of device calls that may fail in one run.
MaxFaults == 1
\* Number of adapter operations in a run that addresses the edge pages.
MaxEdgeOps == 2
\* Number of adapter operations in a run that starts with the bring-up.
MaxMainOps == 1
\* Number of transactions each logical device runs on the shared bus.
MaxTransfers == 2
\* The failure counters of the bring-up loops saturate here, the attempt
\* counters one above (the loops themselves are unbounded).
MaxAttempts == 3

(***************************************************************************)
(* Program constants.                                                      *)
(***************************************************************************)
NEGOTIATION_HZ == 400000
OPERATING_HZ == 25000000
SD_INIT_DELAY_MS == 10
CARD_INIT_DELAY_NS == 5000
PAGE_COUNT == 4096
\* Value of an erased byte of the block device.
ERASED == 255
\* 2^16; a u32 is two 16-bit halves (the model checker's integers stop at 2^31).
U16 == 256 * 256

\* Error values of the block device (T::Error) and of the bring-up calls.
DeviceErrors == {"E1", "E2"}
\* The page the engine's calls address in the model, and the pages whose
\* bytes the model keeps: that page and its two neighbours, and the first
\* two pages of the device.
TargetPages == {PAGE_COUNT - 2}
Pages == {0, 1, PAGE_COUNT - 3, PAGE_COUNT - 2, PAGE_COUNT - 1}
\* The first and the last page of the device.
EdgePages == {0, PAGE_COUNT - 1}
\* Page sizes config::PAGE_SIZE may be set to, next to the model's own.
ConfigPageSizes == {PAGE_SIZE, 512, 4096, 65536}
\* The two bring-up phases of main.
Phases == {"sd_init", "card_init"}
\* The logical devices on the shared bus: the card and a second device.
Devices == {"sd", "aux"}
\* Clock rate of the second logical device on the bus.
AUX_HZ == 1000000

VARIABLES
    pc,         \* position of main
    devConfig,  \* frequency of the Config held by the SPI device (config / spid)
    cfgWrites,  \* number of set_config calls so far
    attempts,   \* [phase -> number of attempts so far], saturating
    fails,      \* [phase -> number of failed attempts so far], saturating
    lastTry,    \* [phase -> result of the last attempt of the phase]
    evs,        \* log signals and delays since the last attempt
    mem,        \* bytes of the block device, for the addresses of Pages
    buffer,     \* DbFlash.buffer, the staging buffer
    last,       \* record of the last adapter operation
    prev,       \* record of the adapter operation before it
    nOps,       \* adapter operations issued so far
    nFaults,    \* failed device calls so far
    opLog,      \* the calls of the adapter, in the order they were made
    devLog,     \* the calls the block device received, in the order it saw them
    inflight,   \* the write suspended at the .await of its device write, or NoCall
    busOwner,   \* the logical device that holds the SPI_BUS mutex, or "none"
    busConfig,  \* frequency the SPI peripheral is configured with
    dpc,        \* [logical device -> position in its transaction]
    trace,      \* start and end events of the transfers on the bus
    nXfers      \* [logical device -> transactions completed]

bringup == <<pc, devConfig, cfgWrites, attempts, fails, lastTry, evs>>
adapter == <<mem, buffer, last, prev, nOps, nFaults, opLog, devLog, inflight>>
bus == <<busOwner, busConfig, dpc, trace, nXfers>>
vars == <<pc, devConfig, cfgWrites, attempts, fails, lastTry, evs,
          mem, buffer, last, prev, nOps, nFaults, opLog, devLog, inflight,
          busOwner, busConfig, dpc, trace, nXfers>>

(***************************************************************************)
(* Helpers.                                                                *)
(***************************************************************************)
Min(a, b) == IF a < b THEN a ELSE b

Ok == [ok |-> TRUE, err |-> "none"]
Err(e) == [ok |-> FALSE, err |-> e]
NotTried == [ok |-> FALSE, err |-> "not tried"]

\* A cast that keeps 16 bits.
AsU16(x) == x % U16

\* `x as u32`
AsU32(x) == ((x \div U16) % U16) * U16 + (x % U16)

\* The payload of length len that starts with byte seed; its bytes are
\* pairwise distinct.
Payload(seed, len) == [i \in 1..len |-> seed + i - 1]

\* The payload of the n-th adapter operation of a run: no two writes of a
\* run carry the same bytes.
PayloadOf(n, len) == Payload(10 * n + 1, len)

\* The addresses whose bytes the model keeps.
Addrs == UNION {(p * PAGE_SIZE)..(p * PAGE_SIZE + PAGE_SIZE - 1) : p \in Pages}

\* Partial effects a failed device call may leave behind: a prefix.
Upto(n) == 0..(IF n < 0 THEN 0 ELSE n)

(***************************************************************************)
(* Bring-up of main: the sd_init loop, the SPI device, the sd.init loop.   *)
(***************************************************************************)
Bump(f, ph, cap) == [f EXCEPT ![ph] = Min(f[ph] + 1, cap)]

Signal(level, text) == [kind |-> "log", level |-> level, text |-> text, ns |-> 0]
Delay(ns) == [kind |-> "delay", level |-> "none", text |-> "", ns |-> ns]

\* A delay that grows with the failures of the phase.
SdInitDelayBackoff == SD_INIT_DELAY_MS * 1000000 * fails["sd_init"]
\* Timer::after_millis(10)
SdInitDelayNs == SD_INIT_DELAY_MS * 1000000
\* Delay.delay_ns(5000u32)
CardInitDelayNs == CARD_INIT_DELAY_NS

\* match sd_init(&mut spi).await { Ok(_) => break, ...
SdInitOk ==
    /\ pc = "sd_init"
    /\ attempts' = Bump(attempts, "sd_init", MaxAttempts + 1)
    /\ lastTry' = [lastTry EXCEPT !["sd_init"] = Ok]
    /\ evs' = <<>>
    /\ pc' = "bus_init"
    /\ UNCHANGED <<devConfig, cfgWrites, fails>>
    /\ UNCHANGED <<adapter, bus>>

\* A failed sd_init that leaves the loop.
SdInitErrGivesUp(e) ==
    /\ pc = "sd_init"
    /\ attempts' = Bump(attempts, "sd_init", MaxAttempts + 1)
    /\ fails' = Bump(fails, "sd_init", MaxAttempts)
    /\ lastTry' = [lastTry EXCEPT !["sd_init"] = Err(e)]
    /\ evs' = <<>>
    /\ pc' = "bus_init"
    /\ UNCHANGED <<devConfig, cfgWrites>>
    /\ UNCHANGED <<adapter, bus>>

\* ... Err(e) => {
SdInitErr(e) ==
    /\ pc = "sd_init"
    /\ attempts' = Bump(attempts, "sd_init", MaxAttempts + 1)
    /\ fails' = Bump(fails, "sd_init", MaxAttempts)
    /\ lastTry' = [lastTry EXCEPT !["sd_init"] = Err(e)]
    /\ evs' = <<>>
    /\ pc' = "sd_warn"
    /\ UNCHANGED <<devConfig, cfgWrites>>
    /\ UNCHANGED <<adapter, bus>>

\* defmt::warn!("Sd init error: {}", e);
SdWarn ==
    /\ pc = "sd_warn"
    /\ evs' = Append(evs, Signal("warn", "Sd init error"))
    /\ pc' = "sd_delay"
    /\ UNCHANGED <<devConfig, cfgWrites, attempts, fails, lastTry>>
    /\ UNCHANGED <<adapter, bus>>

\* embassy_time::Timer::after_millis(10).await; and back to the loop head
SdDelay ==
    /\ pc = "sd_delay"
    /\ evs' = Append(evs, Delay(SdInitDelayNs))
    /\ pc' = "sd_init"
    /\ UNCHANGED <<devConfig, cfgWrites, attempts, fails, lastTry>>
    /\ UNCHANGED <<adapter, bus>>

\* SPI_BUS.init(Mutex::new(spi)); SpiDeviceWithConfig::new(spi_bus, cs, config);
\* SdSpi::new(spid, Delay): the device holds `config`, still 400 kHz.
BusInit ==
    /\ pc = "bus_init"
    /\ pc' = "card_init"
    /\ UNCHANGED <<devConfig, cfgWrites, attempts, fails, lastTry, evs>>
    /\ UNCHANGED <<adapter, bus>>

\* if let Ok(_) = sd.init().await {
CardInitOk ==
    /\ pc = "card_init"
    /\ attempts' = Bump(attempts, "card_init", MaxAttempts + 1)
    /\ lastTry' = [lastTry EXCEPT !["card_init"] = Ok]
    /\ evs' = <<>>
    /\ pc' = "set_config"
    /\ UNCHANGED <<devConfig, cfgWrites, fails>>
    /\ UNCHANGED <<adapter, bus>>

\* The loop left without the set_config call.
SetConfigForgotten ==
    /\ pc = "set_config"
    /\ evs' = Append(evs, Signal("info", "SD card initialization complete!"))
    /\ pc' = "run"
    /\ UNCHANGED <<devConfig, cfgWrites, attempts, fails, lastTry>>
    /\ UNCHANGED <<adapter, bus>>

\* config.frequency = 25_000_000; sd.spi().set_config(config); info!; break;
\* then BufStream::new(sd) and DbFlash { flash: inner, buffer: [0u8; PAGE_SIZE] }
SetConfig ==
    /\ pc = "set_config"
    /\ devConfig' = OPERATING_HZ
    /\ cfgWrites' = cfgWrites + 1
    /\ evs' = Append(evs, Signal("info", "SD card initialization complete!"))
    /\ pc' = "run"
    /\ UNCHANGED <<attempts, fails, lastTry>>
    /\ UNCHANGED <<adapter, bus>>

\* A handshake loop with a retry budget: it stops after MaxAttempts failures.
CardInitErrBounded(e) ==
    /\ pc = "card_init"
    /\ attempts' = Bump(attempts, "card_init", MaxAttempts + 1)
    /\ fails' = Bump(fails, "card_init", MaxAttempts)
    /\ lastTry' = [lastTry EXCEPT !["card_init"] = Err(e)]
    /\ evs' = <<>>
    /\ pc' = IF fails["card_init"] + 1 >= MaxAttempts THEN "gave_up" ELSE "card_log"
    /\ UNCHANGED <<devConfig, cfgWrites>>
    /\ UNCHANGED <<adapter, bus>>

\* sd.init() returned Err(e): the `if let` does not match
CardInitErr(e) ==
    /\ pc = "card_init"
    /\ attempts' = Bump(attempts, "card_init", MaxAttempts + 1)
    /\ fails' = Bump(fails, "card_init", MaxAttempts)
    /\ lastTry' = [lastTry EXCEPT !["card_init"] = Err(e)]
    /\ evs' = <<>>
    /\ pc' = "card_log"
    /\ UNCHANGED <<devConfig, cfgWrites>>
    /\ UNCHANGED <<adapter, bus>>

\* The set_config call placed outside the `if let`: it runs on a failure too.
CardLogSetsConfig ==
    /\ pc = "card_log"
    /\ devConfig' = OPERATING_HZ
    /\ cfgWrites' = cfgWrites + 1
    /\ evs' = Append(evs, Signal("info", "Failed to init card, retrying..."))
    /\ pc' = "card_delay"
    /\ UNCHANGED <<attempts, fails, lastTry>>
    /\ UNCHANGED <<adapter, bus>>

\* defmt::info!("Failed to init card, retrying...");
CardLog ==
    /\ pc = "card_log"
    /\ evs' = Append(evs, Signal("info", "Failed to init card, retrying..."))
    /\ pc' = "card_delay"
    /\ UNCHANGED <<devConfig, cfgWrites, attempts, fails, lastTry>>
    /\ UNCHANGED <<adapter, bus>>

\* embassy_time::Delay.delay_ns(5000u32).await; and back to the loop head
CardDelay ==
    /\ pc = "card_delay"
    /\ evs' = Append(evs, Delay(CardInitDelayNs))
    /\ pc' = "card_init"
    /\ UNCHANGED <<devConfig, cfgWrites, attempts, fails, lastTry>>
    /\ UNCHANGED <<adapter, bus>>

SdInitFail == \E e \in DeviceErrors : SdInitErr(e)
CardInitFail == \E e \in DeviceErrors : CardInitErr(e)

(***************************************************************************)
(* The block device (NorFlash + ReadNorFlash), byte addressed.             *)
(***************************************************************************)
\* Bytes [address, address + len) of the device.
DevRead(m, address, len) ==
    [i \in 1..len |-> IF address + i - 1 \in DOMAIN m THEN m[address + i - 1] ELSE 0]

\* The device after bytes were written at address.
DevWrite(m, address, bytes) ==
    [a \in DOMAIN m |->
        IF address <= a /\ a < address + Len(bytes) THEN bytes[a - address + 1] ELSE m[a]]

\* The device after [from, to) was erased.
DevErase(m, from, to) ==
    [a \in DOMAIN m |-> IF from <= a /\ a < to THEN ERASED ELSE m[a]]

(***************************************************************************)
(* DbFlash.                                                                *)
(***************************************************************************)
\* fn page_count(&self) -> usize { 4096 }
page_count == PAGE_COUNT

\* An erase range that starts at the first byte of the device.
EraseFromZero(page_id) == 0

\* An erase range that stops one byte short of the page end.
EraseToShort(page_id) == AsU32(page_id * PAGE_SIZE + PAGE_SIZE - 1)

\* The arguments of self.flash.erase.
EraseFrom(page_id) == AsU32(page_id * PAGE_SIZE)
EraseTo(page_id) == AsU32(page_id * PAGE_SIZE + PAGE_SIZE)

\* let address = page_id.index() * config::PAGE_SIZE + offset;
Address(page_id, offset) == page_id * PAGE_SIZE + offset

\* The outcome of a slice whose end is beyond the buffer: the index
\* expression panics, before anything is copied or passed on.
Panic == "panic"

\* buf[..len] exists.
SliceOk(buf, len) == len <= Len(buf)

\* The whole staging buffer instead of its prefix.
PrefixWhole(buf, len) == buf

\* &self.buffer[..len]
Prefix(buf, len) == IF SliceOk(buf, len) THEN [i \in 1..len |-> buf[i]] ELSE Panic

\* The copy into the staging buffer left out.
StageSkipped(buf, data) == buf

\* self.buffer[..data.len()].copy_from_slice(data)
Stage(buf, data) ==
    IF SliceOk(buf, Len(data))
        THEN [i \in 1..Len(buf) |-> IF i <= Len(data) THEN data[i] ELSE buf[i]]
        ELSE Panic

\* A device read into a scratch area of its own, not into the staging buffer.
ReadIntoScratch(buf, bytes) == buf

\* The device reads into &mut self.buffer[..data.len()].
ReadInto(buf, bytes) ==
    IF SliceOk(buf, Len(bytes))
        THEN [i \in 1..Len(buf) |-> IF i <= Len(bytes) THEN bytes[i] ELSE buf[i]]
        ELSE Panic

\* data.copy_from_slice(&self.buffer[..data.len()])
ReadCopy(buf, len) == Prefix(buf, len)

\* A read that copies the staging prefix to the caller after a failure too.
ReadOutCopiesAnyway(devres, buf, out, len) == ReadCopy(buf, len)

\* The caller's buffer after read: `?` returns Err before the copy_from_slice.
ReadOut(devres, buf, out, len) == IF devres.ok THEN ReadCopy(buf, len) ELSE out

\* A return value that keeps only the fact of a failure, not its error.
ReturnOfFlattened(devres) == IF devres.ok THEN Ok ELSE Err("E1")

\* What the operation returns for the result of its device call: erase and
\* write return it as it is, read returns it through `?` and Ok(()) otherwise.
ReturnOf(devres) == devres

\* What the caller's output buffer holds before a read.
CallerBuf(len) == [i \in 1..len |-> 7]

DevCall(op, address, arg, res) == [op |-> op, address |-> address, arg |-> arg, res |-> res]

NoOp == [kind |-> "none", page |-> 0, offset |-> 0, data |-> <<>>, out |-> <<>>,
         res |-> Ok, ret |-> 0, calls |-> <<>>]

(***************************************************************************)
(* The adapter operations.  The device call a method awaits either         *)
(* succeeds or fails with an error e, and a failed call may have taken     *)
(* effect in part.  erase and read change nothing before their .await and  *)
(* are one step each; write stages its data before its .await and is two.  *)
(***************************************************************************)
\* No call of the adapter is suspended.
NoCall == [kind |-> "none", page |-> 0, offset |-> 0, data |-> <<>>, bytes |-> <<>>]

\* An adapter that takes calls whatever main has reached.
CanCallAnytime == nOps < MaxOps /\ inflight = NoCall

\* The Database gets the adapter, and calls it, after the bring-up; the
\* methods take &mut self, so a call starts only when none is pending.
CanCall == pc = "run" /\ nOps < MaxOps /\ inflight = NoCall
CanFail == nFaults < MaxFaults

\* The n-th call of the adapter, or the device call made by it.
LogEntry(n, op) == [n |-> n, op |-> op]

\* The call panicked: the program aborts with the adapter and the device as
\* they were.
Panicked ==
    /\ pc' = Panic
    /\ UNCHANGED <<devConfig, cfgWrites, attempts, fails, lastTry, evs>>
    /\ UNCHANGED <<adapter, bus>>

Returned(rec, faults) ==
    /\ last' = rec
    /\ inflight' = NoCall
    /\ opLog' = Append(opLog, LogEntry(nOps + 1, rec.kind))
    /\ devLog' = devLog \o [i \in 1..Len(rec.calls) |-> LogEntry(nOps + 1, rec.calls[i].op)]
    /\ prev' = last
    /\ nOps' = nOps + 1
    /\ nFaults' = nFaults + faults
    /\ UNCHANGED <<bringup, bus>>

\* fn page_count(&self) -> usize
page_count_call ==
    /\ CanCall
    /\ Returned([NoOp EXCEPT !.kind = "page_count", !.ret = page_count], 0)
    /\ UNCHANGED <<mem, buffer>>

\* async fn erase(&mut self, page_id)
erase(page_id) ==
    LET from == EraseFrom(page_id)
        to == EraseTo(page_id)
        rec(devres) == [NoOp EXCEPT !.kind = "erase", !.page = page_id,
                                    !.res = ReturnOf(devres),
                                    !.calls = <<DevCall("erase", from, to, devres)>>]
    IN  /\ CanCall
        /\ \/ /\ mem' = DevErase(mem, from, to)
              /\ Returned(rec(Ok), 0)
           \/ /\ CanFail
              /\ \E e \in DeviceErrors, k \in Upto(to - from) :
                    /\ mem' = DevErase(mem, from, from + k)
                    /\ Returned(rec(Err(e)), 1)
        /\ UNCHANGED buffer

\* async fn read(&mut self, page_id, offset, data: &mut [u8]), data.len() = len
read(page_id, offset, len) ==
    LET address == Address(page_id, offset)
        bytes == DevRead(mem, AsU32(address), len)
        rec(devres, buf) ==
            [NoOp EXCEPT !.kind = "read", !.page = page_id, !.offset = offset,
                         !.out = ReadOut(devres, buf, CallerBuf(len), len),
                         !.res = ReturnOf(devres),
                         !.calls = <<DevCall("read", AsU32(address), len, devres)>>]
    IN  /\ CanCall
        /\ IF SliceOk(buffer, len)
              THEN /\ \/ /\ buffer' = ReadInto(buffer, bytes)
                         /\ Returned(rec(Ok, buffer'), 0)
                      \/ /\ CanFail
                         /\ \E e \in DeviceErrors, k \in Upto(len) :
                               /\ buffer' = ReadInto(buffer, Prefix(bytes, k))
                               /\ Returned(rec(Err(e), buffer'), 1)
                   /\ UNCHANGED mem
              ELSE Panicked

\* A write that is kept in the staging buffer for a later call to flush.
writeBuffered(page_id, offset, data) ==
    /\ CanCall
    /\ buffer' = Stage(buffer, data)
    /\ mem' = mem
    /\ Returned([NoOp EXCEPT !.kind = "write", !.page = page_id, !.offset = offset,
                             !.data = data], 0)

\* async fn write(&mut self, page_id, offset, data: &[u8]), up to the .await:
\* the data is staged, the device write is created with the staged prefix and
\* the task suspends; data longer than the buffer panics in the first slice.
write(page_id, offset, data) ==
    /\ CanCall
    /\ IF SliceOk(buffer, Len(data))
          THEN /\ buffer' = Stage(buffer, data)
               /\ inflight' = [kind |-> "write", page |-> page_id, offset |-> offset,
                               data |-> data, bytes |-> Prefix(buffer', Len(data))]
               /\ UNCHANGED <<mem, last, prev, nOps, nFaults, opLog, devLog>>
               /\ UNCHANGED <<bringup, bus>>
          ELSE Panicked

\* The suspended write resumes: the device write of the staged prefix
\* resolves and its result is returned.
write_complete ==
    LET page_id == inflight.page
        offset == inflight.offset
        data == inflight.data
        address == Address(page_id, offset)
        bytes == inflight.bytes
        rec(devres) == [NoOp EXCEPT !.kind = "write", !.page = page_id, !.offset = offset,
                                    !.data = data,
                                    !.res = ReturnOf(devres),
                                    !.calls = <<DevCall("write", AsU32(address), bytes, devres)>>]
    IN  /\ inflight.kind = "write"
        /\ UNCHANGED buffer
        /\ \/ /\ mem' = DevWrite(mem, AsU32(address), bytes)
              /\ Returned(rec(Ok), 0)
           \/ /\ CanFail
              /\ \E e \in DeviceErrors, k \in Upto(Len(data)) :
                    /\ mem' = DevWrite(mem, AsU32(address), Prefix(bytes, k))
                    /\ Returned(rec(Err(e)), 1)

\* The calls the page-store engine issues: page ids below page_count,
\* non-empty buffers, offset + len <= PAGE_SIZE.
Ranges == {r \in (0..PAGE_SIZE) \X (1..PAGE_SIZE) : r[1] + r[2] <= PAGE_SIZE}

Erase == \E p \in TargetPages : erase(p)
Read == \E p \in TargetPages, r \in Ranges : read(p, r[1], r[2])
Write == \E p \in TargetPages, r \in Ranges : write(p, r[1], PayloadOf(nOps, r[2]))

\* The same calls on the first and the last page of the device.
EdgeCall == nOps < MaxEdgeOps
EraseEdge == \E p \in EdgePages : EdgeCall /\ erase(p)
ReadEdge == \E p \in EdgePages, r \in Ranges : EdgeCall /\ read(p, r[1], r[2])
WriteEdge == \E p \in EdgePages, r \in Ranges : EdgeCall /\ write(p, r[1], PayloadOf(nOps, r[2]))

(***************************************************************************)
(* The shared bus: SPI_BUS is a mutex around the SPI peripheral, and each  *)
(* logical device (SpiDeviceWithConfig) runs a transaction as              *)
(* lock, apply its own configuration, transfer, release.                   *)
(***************************************************************************)
\* The Config a logical device was built with (set_config replaces the card's).
DeviceConfig(d) == IF d = "sd" THEN devConfig ELSE AUX_HZ

BusEvent(ev, d, hz, res) == [ev |-> ev, dev |-> d, hz |-> hz, res |-> res]

\* A task calls transaction() on its logical device.
BusRequest(d) ==
    /\ dpc[d] = "idle"
    /\ nXfers[d] < MaxTransfers
    /\ dpc' = [dpc EXCEPT ![d] = "wait"]
    /\ UNCHANGED <<busOwner, busConfig, trace, nXfers>>
    /\ UNCHANGED <<bringup, adapter>>

\* A lock that does not wait for the bus to be free.
BusLockUnguarded(d) ==
    /\ dpc[d] = "wait"
    /\ busOwner' = d
    /\ dpc' = [dpc EXCEPT ![d] = "locked"]
    /\ UNCHANGED <<busConfig, trace, nXfers>>
    /\ UNCHANGED <<bringup, adapter>>

\* (a) acquire exclusive use of the transport: bus.lock().await
BusLock(d) ==
    /\ dpc[d] = "wait"
    /\ busOwner = "none"
    /\ busOwner' = d
    /\ dpc' = [dpc EXCEPT ![d] = "locked"]
    /\ UNCHANGED <<busConfig, trace, nXfers>>
    /\ UNCHANGED <<bringup, adapter>>

\* A transaction that keeps whatever configuration the bus has.
BusConfigureSkipped(d) ==
    /\ dpc[d] = "locked"
    /\ dpc' = [dpc EXCEPT ![d] = "selected"]
    /\ UNCHANGED <<busOwner, busConfig, trace, nXfers>>
    /\ UNCHANGED <<bringup, adapter>>

\* (b) apply that device's configuration: bus.set_config(&self.config)
BusConfigure(d) ==
    /\ dpc[d] = "locked"
    /\ busConfig' = DeviceConfig(d)
    /\ dpc' = [dpc EXCEPT ![d] = "selected"]
    /\ UNCHANGED <<busOwner, trace, nXfers>>
    /\ UNCHANGED <<bringup, adapter>>

\* (c) perform the transfer: its first byte goes out
BusTransferStart(d) ==
    /\ dpc[d] = "selected"
    /\ trace' = Append(trace, BusEvent("start", d, busConfig, Ok))
    /\ dpc' = [dpc EXCEPT ![d] = "transfer"]
    /\ UNCHANGED <<busOwner, busConfig, nXfers>>
    /\ UNCHANGED <<bringup, adapter>>

\* A transfer whose error return leaves the transaction without the release.
BusTransferEndKeepsLock(d, res) ==
    /\ dpc[d] = "transfer"
    /\ trace' = Append(trace, BusEvent("end", d, busConfig, res))
    /\ dpc' = [dpc EXCEPT ![d] = IF res.ok THEN "release" ELSE "idle"]
    /\ nXfers' = [nXfers EXCEPT ![d] = IF res.ok THEN nXfers[d] ELSE nXfers[d] + 1]
    /\ UNCHANGED <<busOwner, busConfig>>
    /\ UNCHANGED <<bringup, adapter>>

\* (c) the transfer completes, with success or with an error
BusTransferEnd(d, res) ==
    /\ dpc[d] = "transfer"
    /\ trace' = Append(trace, BusEvent("end", d, busConfig, res))
    /\ dpc' = [dpc EXCEPT ![d] = "release"]
    /\ UNCHANGED <<busOwner, busConfig, nXfers>>
    /\ UNCHANGED <<bringup, adapter>>

\* (d) release: the lock guard is dropped
BusUnlock(d) ==
    /\ dpc[d] = "release"
    /\ busOwner' = "none"
    /\ dpc' = [dpc EXCEPT ![d] = "idle"]
    /\ nXfers' = [nXfers EXCEPT ![d] = nXfers[d] + 1]
    /\ UNCHANGED <<busConfig, trace>>
    /\ UNCHANGED <<bringup, adapter>>

\* The devices go on asking for the bus without limit: while the bus is
\* free the log of the transfers and the transaction counts start afresh.
BusLogRotate ==
    /\ busOwner = "none"
    /\ trace # <<>>
    /\ trace' = <<>>
    /\ nXfers' = [d \in Devices |-> 0]
    /\ UNCHANGED <<busOwner, busConfig, dpc>>
    /\ UNCHANGED <<bringup, adapter>>

Request == \E d \in Devices : BusRequest(d)
Lock == \E d \in Devices : BusLock(d)
Configure == \E d \in Devices : BusConfigure(d)
TransferStart == \E d \in Devices : BusTransferStart(d)
TransferEnd == \E d \in Devices, res \in {Ok} \cup {Err(e) : e \in DeviceErrors} : BusTransferEnd(d, res)
Unlock == \E d \in Devices : BusUnlock(d)

(***************************************************************************)
(* Specifications.                                                         *)
(***************************************************************************)
\* The bus before any transaction: Spi::new(.., config.clone()).
InitBusState ==
    /\ busOwner = "none"
    /\ busConfig = NEGOTIATION_HZ
    /\ dpc = [d \in Devices |-> "idle"]
    /\ trace = <<>>
    /\ nXfers = [d \in Devices |-> 0]

\* The adapter as main constructs it, on a card whose bytes are not erased.
InitAdapterState ==
    /\ mem = [a \in Addrs |-> 0]
    /\ buffer = [i \in 1..PAGE_SIZE |-> 0]
    /\ last = NoOp
    /\ prev = NoOp
    /\ nOps = 0
    /\ nFaults = 0
    /\ opLog = <<>>
    /\ devLog = <<>>
    /\ inflight = NoCall

\* main after Config::default(), config.frequency = 400_000 and Spi::new.
InitBringup ==
    /\ pc = "sd_init"
    /\ devConfig = NEGOTIATION_HZ
    /\ cfgWrites = 0
    /\ attempts = [ph \in Phases |-> 0]
    /\ fails = [ph \in Phases |-> 0]
    /\ lastTry = [ph \in Phases |-> NotTried]
    /\ evs = <<>>
    /\ InitAdapterState
    /\ InitBusState

\* main after a bring-up in which each phase succeeded at once.
InitAdapter ==
    /\ pc = "run"
    /\ devConfig = OPERATING_HZ
    /\ cfgWrites = 1
    /\ attempts = [ph \in Phases |-> 1]
    /\ fails = [ph \in Phases |-> 0]
    /\ lastTry = [ph \in Phases |-> Ok]
    /\ evs = <<Signal("info", "SD card initialization complete!")>>
    /\ InitAdapterState
    /\ InitBusState

NextBringup ==
    \/ SdInitOk \/ SdInitFail \/ SdWarn \/ SdDelay \/ BusInit
    \/ CardInitOk \/ CardInitFail \/ SetConfig \/ CardLog \/ CardDelay

NextAdapter == page_count_call \/ Erase \/ Read \/ Write \/ write_complete

NextEdge == EraseEdge \/ ReadEdge \/ WriteEdge \/ write_complete

\* main from its start: the bring-up, then the calls of the adapter.
MainCall == nOps < MaxMainOps
NextMain == NextBringup \/ (MainCall /\ NextAdapter)

NextBus == Request \/ Lock \/ Configure \/ TransferStart \/ TransferEnd \/ Unlock

SpecBringup == InitBringup /\ [][NextBringup]_vars

SpecAdapter == InitAdapter /\ [][NextAdapter]_vars

SpecMain == InitBringup /\ [][NextMain]_vars

\* The adapter used on the first and the last page of the device.
SpecEdge == InitAdapter /\ [][NextEdge]_vars

\* Two tasks use the two logical devices after the bring-up.
SpecBus == InitAdapter /\ [][NextBus]_vars

\* Two tasks that use the two logical devices for ever.
NextBusBusy == NextBus \/ BusLogRotate
SpecBusBusy == InitAdapter /\ [][NextBusBusy]_vars

\* The bus when a transaction that holds the lock runs to its end, and a
\* device that waits while the bus stays free takes the lock.  Nothing says
\* which of two waiting devices gets the lock, nor that a device which asks
\* again right after its release does not get it back first.
SpecBusFair ==
    /\ SpecBusBusy
    /\ \A d \in Devices :
          /\ WF_vars(BusLock(d))
          /\ WF_vars(BusConfigure(d))
          /\ WF_vars(BusTransferStart(d))
          /\ WF_vars(\E res \in {Ok} \cup {Err(e) : e \in DeviceErrors} : BusTransferEnd(d, res))
          /\ WF_vars(BusUnlock(d))

\* The bring-up when every step that stays possible is eventually taken and
\* the card eventually answers an attempt of each phase.
SpecBringupFair ==
    /\ SpecBringup
    /\ WF_vars(NextBringup)
    /\ SF_vars(SdInitOk)
    /\ SF_vars(CardInitOk)

(***************************************************************************)
(* Properties.                                                             *)
(***************************************************************************)
IsOk(rec, kind) == rec.kind = kind /\ rec.res.ok

\* A successful write directly followed by a successful read of the same
\* page, offset and length.
WriteThenRead ==
    /\ IsOk(prev, "write")
    /\ IsOk(last, "read")
    /\ last.page = prev.page
    /\ last.offset = prev.offset
    /\ Len(last.out) = Len(prev.data)

\* C1: a successful write(page_id, offset, data) directly followed by a
\* successful read(page_id, offset, out) of the same length leaves out equal
\* to data, whatever ran before.
C1_WriteReadRoundTrip == WriteThenRead => last.out = prev.data

\* The round trip at an offset above 0, after an earlier operation.
C1_Witness ==
    /\ WriteThenRead
    /\ nOps = 3
    /\ last.offset > 0
    /\ last.out = PayloadOf(1, Len(last.out))

\* A successful erase directly followed by a successful read of that page.
EraseThenRead ==
    /\ IsOk(prev, "erase")
    /\ IsOk(last, "read")
    /\ last.page = prev.page

\* C2: after a successful erase(page_id) a read of any sub-range of that page
\* returns only the erased value; and a write then a read of the erased page
\* round-trip.
C2_EraseThenReadErased ==
    /\ [](EraseThenRead => \A i \in 1..Len(last.out) : last.out[i] = ERASED)
    /\ [][(/\ IsOk(prev, "erase")
           /\ IsOk(last, "write")
           /\ last.page = prev.page
           /\ nOps' = nOps + 1
           /\ IsOk(last', "read")
           /\ last'.page = last.page
           /\ last'.offset = last.offset
           /\ Len(last'.out) = Len(last.data))
          => last'.out = last.data]_vars

\* write offset 0 [1,2], erase, read offset 0 length 1: the erased value, and
\* the second byte of the staging buffer still holds the byte written.
C2_Witness ==
    /\ EraseThenRead
    /\ nOps = 3
    /\ last.offset = 0
    /\ last.out = <<ERASED>>
    /\ buffer[2] = 2

\* The configuration of the scenario of the specification: pages of 512
\* bytes on a capacity of 16 MiB, for which page_count() is to be 32768.
ScenarioPageSize == 512
ScenarioCapacity == 16 * 1024 * 1024

\* C3: page_count() returns the same value in every reachable state, that
\* value is the configured total capacity divided by the page size, no
\* erase/read/write call changes it, and a call of it makes no device call
\* and cannot fail.
C3_PageCountFromCapacity ==
    last.kind = "page_count" =>
        /\ last.ret = page_count
        /\ last.ret = ScenarioCapacity \div ScenarioPageSize
        /\ last.res = Ok
        /\ last.calls = <<>>
        /\ prev.kind = "page_count" => prev.ret = last.ret

\* The handshake loop has been left.
CardLoopLeft == pc = "run"

\* C4: when the handshake fails k times and then succeeds, the loop is left
\* after exactly k + 1 attempts, and from then on the device's configuration
\* is the operating rate, not the negotiation rate.
C4_ReadyAtOperatingRate ==
    CardLoopLeft =>
        /\ lastTry["card_init"] = Ok
        /\ attempts["card_init"] = fails["card_init"] + 1
        /\ devConfig = OPERATING_HZ
        /\ devConfig # NEGOTIATION_HZ

\* Two failed handshakes, then the successful third.
C4_Witness ==
    /\ CardLoopLeft
    /\ fails["card_init"] = 2
    /\ attempts["card_init"] = 3

\* The transfers in progress on the bus.
InTransfer == {d \in Devices : dpc[d] = "transfer"}

\* C5: with two logical devices on one bus at most one transfer is in
\* progress at any time, and the start and end events of the transfers are
\* never interleaved.
C5_TransfersSerialized ==
    /\ Cardinality(InTransfer) <= 1
    /\ \A i \in 1..Len(trace) :
          /\ trace[i].ev = "start" /\ i < Len(trace) =>
                trace[i + 1].ev = "end" /\ trace[i + 1].dev = trace[i].dev
          /\ trace[i].ev = "end" =>
                i > 1 /\ trace[i - 1].ev = "start" /\ trace[i - 1].dev = trace[i].dev

\* One device transfers while the other waits for the bus, after a
\* transfer of the other device.
C5_Witness ==
    \E d \in Devices, o \in Devices :
        /\ d # o
        /\ dpc[d] = "transfer"
        /\ dpc[o] = "wait"
        /\ Len(trace) = 3
        /\ trace[1].dev = o

\* C6: erase, read and write each issue exactly one device call, of their
\* own kind, and return its result as it is: Err(e) with the same e when that
\* call failed; page_count issues none.
C6_OneCallErrorVerbatim ==
    /\ last.kind \in {"erase", "read", "write"} =>
          /\ Len(last.calls) = 1
          /\ last.calls[1].op = last.kind
          /\ last.res = last.calls[1].res
    /\ last.kind \in {"none", "page_count"} => last.calls = <<>>

\* A read whose device call failed with the second error.
C6_Witness ==
    /\ last.kind = "read"
    /\ last.calls[1].res = Err("E2")
    /\ last.res = Err("E2")

SdLoop == {"sd_init", "sd_warn", "sd_delay"}
CardLoop == {"card_init", "card_log", "card_delay"}

\* C7: a bring-up loop is left only through a successful attempt: once a
\* phase has finished its last attempt succeeded, and after a failed attempt
\* main is still inside the loop of that phase.
C7_LoopsExitOnSuccessOnly ==
    /\ pc \in SdLoop \cup {"bus_init"} \cup CardLoop \cup {"set_config", "run"}
    /\ pc \notin SdLoop => lastTry["sd_init"] = Ok
    /\ pc \notin SdLoop \cup {"bus_init"} \cup CardLoop => lastTry["card_init"] = Ok
    /\ \A ph \in Phases : attempts[ph] > 0 /\ ~lastTry[ph].ok =>
          pc \in (IF ph = "sd_init" THEN SdLoop ELSE CardLoop)

\* Both phases finished after repeated failures.
C7_Witness ==
    /\ pc = "run"
    /\ fails["sd_init"] >= 2
    /\ fails["card_init"] >= 2

Ready == pc = "run" /\ devConfig = OPERATING_HZ

\* C8: when the card eventually answers an attempt of each phase, the
\* bring-up eventually is Ready at the operating rate; and the loops have no
\* attempt limit: at every attempt, whatever the number of failures so far,
\* a further failure is possible and leads to a further attempt.
C8_EventuallyReady ==
    /\ <>Ready
    /\ [](pc = "sd_init" => ENABLED SdInitFail)
    /\ [](pc = "card_init" => ENABLED CardInitFail)
    /\ [][pc = "sd_delay" => pc' = "sd_init"]_vars
    /\ [][pc = "card_delay" => pc' = "card_init"]_vars

\* A further handshake attempt after the failure counter has saturated.
C8_Witness ==
    /\ pc = "card_init"
    /\ fails["card_init"] = MaxAttempts
    /\ fails["sd_init"] = MaxAttempts

\* C9: the device's configuration changes exactly once: it is the
\* negotiation rate up to and during every handshake attempt, is set to the
\* operating rate in the step that follows the first successful handshake,
\* and is not set again.
C9_ConfigChangesOnce ==
    /\ pc # "run" => devConfig = NEGOTIATION_HZ /\ cfgWrites = 0
    /\ pc = "run" => devConfig = OPERATING_HZ /\ cfgWrites = 1
    /\ pc = "set_config" =>
          /\ lastTry["card_init"] = Ok
          /\ attempts["card_init"] = fails["card_init"] + 1
          /\ evs = <<>>

\* The configuration set once, after two failed handshakes and the
\* successful third.
C9_Witness ==
    /\ pc = "run"
    /\ fails["card_init"] = 2
    /\ cfgWrites = 1
    /\ devConfig = OPERATING_HZ

NoDelay == \A i \in 1..Len(evs) : evs[i].kind # "delay"

\* C10: in both phases a failed attempt is followed by a log signal and then
\* exactly one delay before the next attempt, of the same length after every
\* failure of the phase, and no delay follows the successful attempt.
C10_FixedDelayAfterFailure ==
    /\ pc = "sd_delay" => evs = <<Signal("warn", "Sd init error")>>
    /\ pc = "sd_init" /\ attempts["sd_init"] > 0 =>
          evs = <<Signal("warn", "Sd init error"), Delay(SD_INIT_DELAY_MS * 1000000)>>
    /\ pc = "card_delay" => evs = <<Signal("info", "Failed to init card, retrying...")>>
    /\ pc = "card_init" /\ attempts["card_init"] > 0 =>
          evs = <<Signal("info", "Failed to init card, retrying..."),
                  Delay(CARD_INIT_DELAY_NS)>>
    /\ pc \in {"bus_init", "set_config", "run"} => NoDelay
    /\ pc \in {"sd_warn", "card_log"} => evs = <<>>

\* The third sd_init attempt about to start, after its one delay.
C10_Witness ==
    /\ pc = "sd_init"
    /\ fails["sd_init"] = 2
    /\ Len(evs) = 2
    /\ evs[2].kind = "delay"

\* The page of a device address.
PageOf(a) == a \div PAGE_SIZE

\* The step is a call of the adapter that returned Ok.
OkStep(kind) == nOps' = nOps + 1 /\ IsOk(last', kind)

\* C11: a successful erase(page_id) issues one device erase of exactly
\* [page_id*PAGE_SIZE, page_id*PAGE_SIZE + PAGE_SIZE); after it every byte of
\* that page is erased and every byte of every other page is as before, for
\* the first and for the last page of the device.
C11_EraseFrame ==
    [][OkStep("erase") =>
          /\ last'.page \in 0..(page_count - 1)
          /\ last'.calls = <<DevCall("erase", last'.page * PAGE_SIZE,
                                     last'.page * PAGE_SIZE + PAGE_SIZE, Ok)>>
          /\ \A a \in Addrs :
                mem'[a] = IF PageOf(a) = last'.page THEN ERASED ELSE mem[a]]_vars

\* The last page erased after a write to the first page, which is kept.
C11_Witness ==
    /\ IsOk(last, "erase")
    /\ last.page = PAGE_COUNT - 1
    /\ IsOk(prev, "write")
    /\ prev.page = 0
    /\ mem[0] = 1
    /\ \A a \in Addrs : PageOf(a) = PAGE_COUNT - 1 => mem[a] = ERASED
    /\ \A a \in Addrs : PageOf(a) = PAGE_COUNT - 2 => mem[a] = 0

\* C12: write(page_id, offset, data) issues no device read and exactly one
\* device write, of the bytes of data at page_id*PAGE_SIZE + offset; after a
\* successful write the device bytes outside [address, address + len(data)),
\* in the same page and in the other pages, are as before.
C12_WriteFrame ==
    [][nOps' = nOps + 1 /\ last'.kind = "write" =>
          LET address == last'.page * PAGE_SIZE + last'.offset
              len == Len(last'.data)
          IN  /\ Len(last'.calls) = 1
              /\ last'.calls[1].op = "write"
              /\ last'.calls[1].address = address
              /\ last'.calls[1].arg = last'.data
              /\ last'.res.ok =>
                    \A a \in Addrs :
                        a < address \/ a >= address + len => mem'[a] = mem[a]]_vars

\* One byte written at offset 1 of a page whose first byte an earlier write
\* had set: the first byte is kept.
C12_Witness ==
    /\ IsOk(last, "write")
    /\ IsOk(prev, "write")
    /\ last.offset = 1
    /\ Len(last.data) = 1
    /\ mem[last.page * PAGE_SIZE] = 1
    /\ mem[last.page * PAGE_SIZE + 1] = 11

\* C13: every read and every write goes through the one staging buffer:
\* after a successful read of len bytes buffer[..len] equals the caller's
\* output and the device bytes at [address, address + len); after a write,
\* whether or not its device write succeeded, buffer[..len] equals the
\* caller's data, and already so while the write is suspended at its device
\* write; erase and page_count leave the buffer alone, so its prefix is that
\* of the most recent read or write.
C13_StagingHoldsLatest ==
    /\ [](inflight.kind = "write" =>
            /\ Len(inflight.data) <= Len(buffer)
            /\ Prefix(buffer, Len(inflight.data)) = inflight.data)
    /\ [](inflight = NoCall /\ IsOk(last, "read") =>
            LET len == Len(last.out)
                address == last.page * PAGE_SIZE + last.offset
            IN  /\ len <= Len(buffer)
                /\ Prefix(buffer, len) = last.out
                /\ Prefix(buffer, len) = DevRead(mem, address, len))
    /\ [](inflight = NoCall /\ last.kind = "write" =>
            /\ Len(last.data) <= Len(buffer)
            /\ Prefix(buffer, Len(last.data)) = last.data)
    /\ [][nOps' = nOps + 1 /\ last'.kind \in {"erase", "page_count"} =>
            buffer' = buffer]_vars

\* A write of [1, 2], then a read of the second byte: the buffer starts
\* with the byte read, not with the first byte written.
C13_Witness ==
    /\ IsOk(last, "read")
    /\ prev.kind = "write"
    /\ prev.data = <<1, 2>>
    /\ last.offset = 1
    /\ last.out = <<2>>
    /\ buffer[1] = 2
    /\ buffer[2] = 2

\* The calls of the adapter that reach the device.
DeviceOps == SelectSeq(opLog, LAMBDA e : e.op # "page_count")

\* C14: the calls the block device receives are the calls of the adapter,
\* one device call per adapter call and in the same order; a call of the
\* adapter makes its device call before the next call starts, so nothing is
\* reordered, merged, batched or deferred; at most one call is pending, and
\* while a write is pending the only step of the adapter is its return.
C14_CallOrderKept ==
    /\ [][inflight' # inflight /\ inflight' # NoCall => inflight = NoCall]_vars
    /\ [][inflight # NoCall =>
            /\ inflight' = NoCall
            /\ nOps' = nOps + 1
            /\ last'.kind = inflight.kind
            /\ last'.page = inflight.page
            /\ last'.offset = inflight.offset
            /\ last'.data = inflight.data
            /\ Len(last'.calls) = 1]_vars
    /\ [](Len(opLog) = nOps /\ \A i \in 1..Len(opLog) : opLog[i].n = i)
    /\ [](devLog = DeviceOps)
    /\ [][nOps' = nOps + 1 =>
            /\ opLog' = Append(opLog, LogEntry(nOps + 1, last'.kind))
            /\ devLog' = IF last'.kind = "page_count"
                            THEN devLog
                            ELSE Append(devLog, LogEntry(nOps + 1, last'.kind))]_vars

\* A write, an erase and a read, received by the device in that order.
C14_Witness ==
    /\ Len(devLog) = 3
    /\ devLog[1] = LogEntry(1, "write")
    /\ devLog[2] = LogEntry(2, "erase")
    /\ devLog[3] = LogEntry(3, "read")

\* The devices inside a transaction, from the lock to the release.
InTransaction == {d \in Devices : dpc[d] \in {"locked", "selected", "transfer", "release"}}

\* The transfers device d has started.
StartsOf(d) == Len(SelectSeq(trace, LAMBDA ev : ev.ev = "start" /\ ev.dev = d))

\* Some device waits for the bus.
SomeWaits == \E d \in Devices : dpc[d] = "wait"

\* C15 (as amended): the bus lock is scoped to one transfer: a device takes
\* the bus for each transfer and gives it back when that transfer is over,
\* after a success and after a failure; when no transaction runs the bus is
\* unowned; and the devices never deadlock: a device inside a transaction or
\* waiting always leaves a step possible, every holder gives the bus back,
\* and while a device waits for the free bus some device gets it.
C15_LockPerTransfer ==
    /\ [](\A d \in Devices : busOwner = d <=> d \in InTransaction)
    /\ [](InTransaction = {} => busOwner = "none")
    /\ [](\A d \in Devices :
            StartsOf(d) = nXfers[d] + (IF dpc[d] \in {"transfer", "release"} THEN 1 ELSE 0))
    /\ [][\A d \in Devices :
            dpc[d] = "release" /\ dpc'[d] # "release" =>
                busOwner' = "none" /\ dpc'[d] = "idle" /\ nXfers'[d] = nXfers[d] + 1]_vars
    /\ []((\E d \in Devices : dpc[d] # "idle") => ENABLED NextBus)
    /\ \A d \in Devices : (busOwner = d) ~> (busOwner = "none")
    /\ (SomeWaits /\ busOwner = "none") ~> (busOwner # "none")

\* C15 (as claimed): each waiting transfer eventually gets the bus.
C15_EveryWaiterServed ==
    \A d \in Devices : (dpc[d] = "wait") ~> (busOwner = d)

\* The first transfer failed and its device asks for the bus again, while
\* the other device, which had waited, holds the bus.
C15_Witness ==
    \E d \in Devices, o \in Devices :
        /\ d # o
        /\ Len(trace) >= 2
        /\ trace[2].ev = "end"
        /\ trace[2].dev = o
        /\ ~trace[2].res.ok
        /\ nXfers[o] = 1
        /\ dpc[o] = "wait"
        /\ busOwner = d

\* C16: during every transfer the configuration active on the bus is that
\* of the device that holds the bus: with two devices of different clock
\* rates and interleaved requests, no transfer starts, runs or ends with the
\* other device's configuration.
C16_TransferUsesOwnConfig ==
    /\ DeviceConfig("sd") # DeviceConfig("aux")
    /\ \A d \in Devices :
          dpc[d] = "transfer" => busOwner = d /\ busConfig = DeviceConfig(d)
    /\ \A i \in 1..Len(trace) : trace[i].hz = DeviceConfig(trace[i].dev)

\* The card transfers at the operating rate right after a transfer of the
\* second device at its rate, while the second device asks for the bus again.
C16_Witness ==
    /\ Len(trace) = 3
    /\ trace[1].dev = "aux"
    /\ trace[1].hz = AUX_HZ
    /\ trace[3].dev = "sd"
    /\ trace[3].hz = OPERATING_HZ
    /\ dpc["sd"] = "transfer"
    /\ dpc["aux"] = "wait"

\* C17: the bring-up is strictly ordered: no handshake (sd.init) is attempted
\* before sd_init has succeeded, and no call of the adapter reaches the
\* device before the handshake has succeeded and the configuration has been
\* switched to the operating rate.
C17_BringupOrdered ==
    /\ [](pc \in CardLoop \cup {"set_config", "run"} \/ attempts["card_init"] > 0 =>
            lastTry["sd_init"] = Ok)
    /\ [](nOps > 0 \/ opLog # <<>> \/ devLog # <<>> \/ inflight # NoCall =>
            /\ lastTry["sd_init"] = Ok
            /\ lastTry["card_init"] = Ok
            /\ devConfig = OPERATING_HZ
            /\ cfgWrites = 1)
    /\ [][lastTry'["card_init"] # lastTry["card_init"] => lastTry["sd_init"] = Ok]_vars
    /\ [][devLog' # devLog \/ mem' # mem \/ buffer' # buffer =>
            /\ lastTry["card_init"] = Ok
            /\ devConfig = OPERATING_HZ
            /\ devConfig' = OPERATING_HZ]_vars

\* A device write by the adapter after both phases had failed before they
\* succeeded.
C17_Witness ==
    /\ pc = "run"
    /\ fails["sd_init"] >= 1
    /\ fails["card_init"] >= 1
    /\ Len(devLog) = 1
    /\ devLog[1].op = "write"
    /\ IsOk(last, "write")

\* C18: when the device read inside read fails, read returns the error
\* before it copies anything: the caller's output buffer holds what it held
\* before the call, and the device contents are as before.
C18_FailedReadCopiesNothing ==
    /\ [](last.kind = "read" /\ ~last.res.ok =>
            /\ last.out = CallerBuf(Len(last.out))
            /\ last.res = last.calls[1].res)
    /\ [][nOps' = nOps + 1 /\ last'.kind = "read" /\ ~last'.res.ok => mem' = mem]_vars

\* A read of an erased page fails after the device filled the first byte of
\* the staging buffer: the caller's two bytes are as before.
C18_Witness ==
    /\ last.kind = "read"
    /\ ~last.res.ok
    /\ IsOk(prev, "erase")
    /\ buffer[1] = ERASED
    /\ last.out = CallerBuf(2)
    /\ mem[last.page * PAGE_SIZE] = ERASED

\* x is below 2^32.
FitsU32(x) == x >= 0 /\ x \div U16 < U16

\* C19: for the first and the last page and every offset, len with
\* offset + len <= PAGE_SIZE: the staging slice [0, len) lies in the buffer;
\* the bytes accessed lie in that one page and below page_count*PAGE_SIZE;
\* and every address passed to the device, the erase end of the last page
\* included, is below 2^32 and is passed as computed, the cast cutting
\* nothing off, also at the larger page sizes.
C19_AddressesInRange ==
    /\ Len(buffer) = PAGE_SIZE
    /\ pc # Panic
    /\ last.kind \in {"read", "write"} =>
          LET len == IF last.kind = "read" THEN Len(last.out) ELSE Len(last.data)
              address == last.page * PAGE_SIZE + last.offset
          IN  /\ last.page \in 0..(page_count - 1)
              /\ len <= Len(buffer)
              /\ last.page * PAGE_SIZE <= address
              /\ address + len <= last.page * PAGE_SIZE + PAGE_SIZE
              /\ address + len <= page_count * PAGE_SIZE
              /\ FitsU32(address)
              /\ last.calls[1].address = address
    /\ last.kind = "erase" =>
          /\ last.page \in 0..(page_count - 1)
          /\ FitsU32(last.page * PAGE_SIZE + PAGE_SIZE)
          /\ last.calls[1].address = last.page * PAGE_SIZE
          /\ last.calls[1].arg = last.page * PAGE_SIZE + PAGE_SIZE
          /\ last.calls[1].arg <= page_count * PAGE_SIZE
    /\ \A ps \in ConfigPageSizes, p \in EdgePages : \A offset \in {0, ps - 1, ps} :
          /\ FitsU32(p * ps + offset)
          /\ AsU32(p * ps + offset) = p * ps + offset
          /\ p * ps + offset <= page_count * ps

\* The last byte of the last page read after that page was erased: the
\* erase end is the capacity, the read address one below it.
C19_Witness ==
    /\ IsOk(last, "read")
    /\ last.page = page_count - 1
    /\ last.calls[1].address = page_count * PAGE_SIZE - 1
    /\ IsOk(prev, "erase")
    /\ prev.page = page_count - 1
    /\ prev.calls[1].arg = page_count * PAGE_SIZE
    /\ last.out = <<ERASED>>

====
